---- MODULE Spec2Model ----
(***************************************************************************)
(* Model of playwright_universal_mcp/server.py: the process-wide Playwright *)
(* session (playwright_instance, browser, context, pages, current_page_id), *)
(* the coroutines that touch it (ensure_browser, call_tool, cleanup, main)  *)
(* and the synchronous helper get_page.                                     *)
(*                                                                          *)
(* A coroutine is cut at its await points: one action runs the code from    *)
(* the completion of one awaited Playwright call up to the issue of the     *)
(* next one (or to the coroutine's return / raise).  The outcome of every   *)
(* awaited Playwright call (returns / raises) is chosen by the environment. *)
(*                                                                          *)
(* Handles.  One run of ensure_browser creates a chain engine -> browser -> *)
(* context -> page.  The four handles of one chain carry the same number n  *)
(* (n = 1 for the first engine started, 2 for the second, ...), so that     *)
(* "browser n" is the browser launched from engine n.  None is 0.           *)
(***************************************************************************)
EXTENDS Integers, FiniteSets, Sequences, TLC

\* ---------------------------------------------------------------- bounds
MaxCalls == 3        \* call_tool requests issued in one behaviour
MaxCleanups == 2     \* completed runs of cleanup() in one behaviour
MaxInFlight == 2     \* request slots (concurrent handlers in SpecConcurrent)
MaxConcurrentCalls == 2  \* call_tool requests issued in SpecConcurrent

\* ---------------------------------------------------------------- values
None == 0                      \* Python None for a handle
Absent == "<absent>"           \* key missing from arguments / Python None id
Reqs == 1..MaxInFlight
Names == {"navigate", "click"}
Urls == {"u1", "u2"}
PageIdArgs == {Absent, "default", "other", ""}
ArgBundles == [url : Urls \cup {Absent}, page_id : PageIdArgs]
NoArgs == [url |-> Absent, page_id |-> Absent]
Blank == "about:blank"
EmptyMap == [k \in {} |-> None]
MandatoryArgs == <<"--no-sandbox", "--disable-setuid-sandbox">>
DefaultConfig == [browser_type |-> "chromium", headless |-> TRUE, debug |-> FALSE,
                  browser_args |-> MandatoryArgs]

VARIABLES
  playwright_instance,  \* engine handle or None
  browser,              \* browser handle or None
  context,              \* context handle or None
  pages,                \* page_id -> page handle
  current_page_id,      \* page id or Absent (None)
  started,              \* engines started by async_playwright().start()
  stopped,              \* engines on which stop() returned
  launched,             \* browsers launched by launcher.launch()
  closed,               \* browsers on which close() returned
  deadBrowsers,         \* browsers whose process died on its own
  deadEngines,          \* engines whose driver died on its own
  pageUrl,              \* page handle -> url the page is at
  req,                  \* per slot: the call_tool coroutine's position
  cl,                   \* the cleanup coroutine's position and caller
  last,                 \* outcome of the operation that completed last
  calls,                \* call_tool requests issued so far
  cleanups,             \* cleanup() runs completed so far
  closeCalls,           \* browser.close() calls issued so far
  stopCalls,            \* playwright_instance.stop() calls issued so far
  mainPc,               \* position of main()
  exitPath,             \* how main's try block was left
  mainCleanups,         \* cleanup() runs started by main's finally
  log,                  \* outcomes of the completed call_tool requests, in order
  CONFIG                \* the runtime options

session == <<playwright_instance, browser, context, pages, current_page_id>>
world == <<started, stopped, launched, closed, pageUrl>>
deaths == <<deadBrowsers, deadEngines>>
counters == <<calls, cleanups, closeCalls, stopCalls>>
mainVars == <<mainPc, exitPath, mainCleanups>>
vars == <<session, world, deaths, req, cl, last, counters, mainVars, log, CONFIG>>

IdleReq == [pc |-> "idle", name |-> "", args |-> NoArgs, h |-> None]
IdleCl == [pc |-> "idle", by |-> "none"]
NoLast == [op |-> "none", name |-> "", args |-> NoArgs, status |-> "none",
           kind |-> "", value |-> None, text |-> <<>>]

Outcome(op, name, args, status, kind, value, text) ==
  [op |-> op, name |-> name, args |-> args, status |-> status,
   kind |-> kind, value |-> value, text |-> text]

Raised(op, name, args, kind) == Outcome(op, name, args, "raised", kind, None, <<>>)

\* ------------------------------------------------------ liveness of handles
EngineAlive(e) == e \in started /\ e \notin stopped /\ e \notin deadEngines
BrowserAlive(b) == b \in launched /\ b \notin closed /\ b \notin deadBrowsers

AllIdle == (\A r \in Reqs : req[r].pc = "idle") /\ cl.pc = "idle"

Init ==
  /\ playwright_instance = None
  /\ browser = None
  /\ context = None
  /\ pages = EmptyMap
  /\ current_page_id = Absent
  /\ started = {} /\ stopped = {} /\ launched = {} /\ closed = {}
  /\ deadBrowsers = {} /\ deadEngines = {}
  /\ pageUrl = EmptyMap
  /\ req = [r \in Reqs |-> IdleReq]
  /\ cl = IdleCl
  /\ last = NoLast
  /\ calls = 0 /\ cleanups = 0 /\ closeCalls = 0 /\ stopCalls = 0
  /\ mainPc = "init" /\ exitPath = "none" /\ mainCleanups = 0
  /\ log = <<>>
  /\ CONFIG = DefaultConfig

\* ------------------------------------------------------------- get_page
\* `page_id or current_page_id`: None and "" are both falsy
Truthy(page_id) == page_id # Absent /\ page_id # ""

ResolvedPid_givenOnly(page_id, cpid) == page_id

ResolvedPid(page_id, cpid) == IF Truthy(page_id) THEN page_id ELSE cpid

get_page_fallback(page_id, pgs, cpid) ==
  LET pid == IF ResolvedPid(page_id, cpid) \in DOMAIN pgs
             THEN ResolvedPid(page_id, cpid) ELSE cpid IN
  IF pid \notin DOMAIN pgs
  THEN [ok |-> FALSE, page |-> None]
  ELSE [ok |-> TRUE, page |-> pgs[pid]]

get_page(page_id, pgs, cpid) ==
  LET pid == ResolvedPid(page_id, cpid) IN
  IF pid \notin DOMAIN pgs
  THEN [ok |-> FALSE, page |-> None]
  ELSE [ok |-> TRUE, page |-> pgs[pid]]

\* get_page called on its own (it has no await: one step)
GetPage(page_id) ==
  /\ AllIdle
  /\ LET g == get_page(page_id, pages, current_page_id)
         a == [url |-> Absent, page_id |-> page_id] IN
     last' = IF g.ok
             THEN Outcome("get_page", "", a, "ok", "", g.page, <<>>)
             ELSE Raised("get_page", "", a, "PageNotFound")
  /\ UNCHANGED <<session, world, deaths, req, cl, counters, mainVars, log, CONFIG>>

\* ------------------------------------------------------------ call_tool
\* `if playwright_instance: return` at the head of ensure_browser
AlreadyRunning_never == FALSE

AlreadyRunning_liveOnly ==
  /\ playwright_instance # None
  /\ playwright_instance \in started
  /\ playwright_instance \notin stopped

AlreadyRunning_inverted == playwright_instance = None

AlreadyRunning == playwright_instance # None

\* what the log keeps of an outcome: the url of a navigate that succeeded,
\* "rejected" for a call refused by the dispatch (unknown tool, page not
\* found, url missing), "failed" for a Playwright call that raised
LogEntry(out) ==
  IF out.status = "ok" THEN out.args.url
  ELSE IF out.kind \in {"UnknownTool", "PageNotFound", "KeyError"} THEN "rejected"
  ELSE "failed"

\* a call_tool coroutine returns or raises
Finish(r, out) ==
  /\ req' = [req EXCEPT ![r] = IdleReq]
  /\ last' = out
  /\ log' = Append(log, LogEntry(out))

\* `if name == "navigate":`
IsNavigate_any(name) == TRUE

IsNavigate(name) == name = "navigate"

\* f"Unknown tool: {name}"
UnknownToolMessage(name) == <<"Unknown tool: ", name>>

\* call_tool from the return of ensure_browser up to `await page.goto(...)`,
\* with the page map and current page id as ensure_browser left them
Dispatch(r, name, args, pgs, cpid) ==
  IF IsNavigate(name)
  THEN LET g == get_page(args.page_id, pgs, cpid) IN
       IF ~g.ok
       THEN Finish(r, Raised("call_tool", name, args, "PageNotFound"))
       ELSE IF args.url = Absent
       THEN Finish(r, Raised("call_tool", name, args, "KeyError"))
       ELSE /\ req' = [req EXCEPT ![r] =
                         [pc |-> "goto", name |-> name, args |-> args, h |-> g.page]]
            /\ UNCHANGED <<last, log>>
  ELSE Finish(r, Outcome("call_tool", name, args, "raised", "UnknownTool",
                         None, UnknownToolMessage(name)))

\* entry of call_tool: ensure_browser returns at once, or issues start().
\* call_tool is a handler of the running server; being a module-level
\* coroutine it can also be awaited by the embedding program once main has
\* ended (as get_page and cleanup can).
CallToolEntry(r, name, args) ==
  /\ req[r].pc = "idle"
  /\ cl.pc = "idle"
  /\ mainPc \in {"running", "done"}
  /\ calls < MaxCalls
  /\ calls' = calls + 1
  /\ IF AlreadyRunning
     THEN Dispatch(r, name, args, pages, current_page_id)
     ELSE /\ req' = [req EXCEPT ![r] =
                       [pc |-> "start", name |-> name, args |-> args, h |-> None]]
          /\ UNCHANGED <<last, log>>
  /\ UNCHANGED <<session, world, deaths, cl, cleanups, closeCalls, stopCalls, mainVars, CONFIG>>

\* the slot a new coroutine takes: the lowest free one
FreeSlot == IF \E r \in Reqs : req[r].pc = "idle"
            THEN CHOOSE r \in Reqs : req[r].pc = "idle" /\ \A q \in Reqs : q < r => req[q].pc # "idle"
            ELSE 1

\* requests handled one at a time
CallTool(r, name, args) == AllIdle /\ CallToolEntry(r, name, args)

\* a request accepted while another one is suspended at an await
CallToolConcurrent(r, name, args) ==
  /\ mainPc = "running"
  /\ calls < MaxConcurrentCalls
  /\ CallToolEntry(r, name, args)

NewHandle == Cardinality(started) + 1

\* `playwright_instance = await async_playwright().start()` completes;
\* on success launcher.launch(...) is issued on the new engine
StartDone(r, ok) ==
  /\ req[r].pc = "start"
  /\ IF ok
     THEN /\ playwright_instance' = NewHandle
          /\ started' = started \cup {NewHandle}
          /\ req' = [req EXCEPT ![r].pc = "launch", ![r].h = NewHandle]
          /\ UNCHANGED <<last, log>>
     ELSE /\ Finish(r, Raised("call_tool", req[r].name, req[r].args, "start_failed"))
          /\ UNCHANGED <<playwright_instance, started>>
  /\ UNCHANGED <<browser, context, pages, current_page_id, stopped, launched,
                 closed, pageUrl, deaths, cl, counters, mainVars, CONFIG>>

\* `browser = await launcher.launch(...)` completes;
\* on success browser.new_context() is issued
LaunchDone(r, ok) ==
  /\ req[r].pc = "launch"
  /\ ok => EngineAlive(req[r].h)
  /\ IF ok
     THEN /\ browser' = req[r].h
          /\ launched' = launched \cup {req[r].h}
          /\ req' = [req EXCEPT ![r].pc = "new_context"]
          /\ UNCHANGED <<last, log>>
     ELSE /\ Finish(r, Raised("call_tool", req[r].name, req[r].args, "launch_failed"))
          /\ UNCHANGED <<browser, launched>>
  /\ UNCHANGED <<playwright_instance, context, pages, current_page_id, started,
                 stopped, closed, pageUrl, deaths, cl, counters, mainVars, CONFIG>>

\* `context = await browser.new_context()` completes;
\* on success context.new_page() is issued
NewContextDone(r, ok) ==
  /\ req[r].pc = "new_context"
  /\ ok => BrowserAlive(req[r].h)
  /\ IF ok
     THEN /\ context' = req[r].h
          /\ req' = [req EXCEPT ![r].pc = "new_page"]
          /\ UNCHANGED <<last, log>>
     ELSE /\ Finish(r, Raised("call_tool", req[r].name, req[r].args, "new_context_failed"))
          /\ UNCHANGED context
  /\ UNCHANGED <<playwright_instance, browser, pages, current_page_id, world,
                 deaths, cl, counters, mainVars, CONFIG>>

Put(f, k, v) == [x \in DOMAIN f \cup {k} |-> IF x = k THEN v ELSE f[x]]

\* `page = await context.new_page()` completes; the page is registered as
\* "default", ensure_browser returns and call_tool goes on to its dispatch
NewPageDone(r, ok) ==
  /\ req[r].pc = "new_page"
  /\ ok => BrowserAlive(req[r].h)
  /\ IF ok
     THEN /\ pages' = Put(pages, "default", req[r].h)
          /\ current_page_id' = "default"
          /\ pageUrl' = Put(pageUrl, req[r].h, Blank)
          /\ Dispatch(r, req[r].name, req[r].args, pages', current_page_id')
     ELSE /\ Finish(r, Raised("call_tool", req[r].name, req[r].args, "new_page_failed"))
          /\ UNCHANGED <<pages, current_page_id, pageUrl>>
  /\ UNCHANGED <<playwright_instance, browser, context, started, stopped,
                 launched, closed, deaths, cl, counters, mainVars, CONFIG>>

NavigatedTo_bare(url) == <<"Navigated to ">>

NavigatedTo(url) == <<"Navigated to ", url>>

\* `await page.goto(args["url"])` completes; the TextContent is returned
GotoDone(r, ok) ==
  /\ req[r].pc = "goto"
  /\ ok => BrowserAlive(req[r].h)
  /\ IF ok
     THEN /\ pageUrl' = Put(pageUrl, req[r].h, req[r].args.url)
          /\ Finish(r, Outcome("call_tool", req[r].name, req[r].args, "ok", "",
                               req[r].h, NavigatedTo(req[r].args.url)))
     ELSE /\ Finish(r, Raised("call_tool", req[r].name, req[r].args, "goto_failed"))
          /\ UNCHANGED pageUrl
  /\ UNCHANGED <<session, started, stopped, launched, closed, deaths, cl,
                 counters, mainVars, CONFIG>>

\* ------------------------------------------------------------ resources
\* the AnyUrl handed to read_resource, as parsed by the caller
Uris == [scheme : {"screenshot"}, host : {"default", "other", Absent}]

\* f"screenshot://{pid}"
ResourceUri(pid) == [scheme |-> "screenshot", host |-> pid]

\* `for pid, page in pages.items()`
ListedPids_default(pgs) == {"default"}

ListedPids(pgs) == DOMAIN pgs

RECURSIVE InOrder(_)
InOrder(S) ==
  IF S = {} THEN <<>>
  ELSE LET x == CHOOSE y \in S : TRUE IN <<x>> \o InOrder(S \ {x})

Descriptor(pid, pgs, urls) ==
  [uri |-> ResourceUri(pid),
   name |-> <<"Screenshot: ", IF pid \in DOMAIN pgs THEN urls[pgs[pid]] ELSE Absent>>,
   mimeType |-> "image/png"]

Descriptors(pgs, urls) ==
  LET ids == InOrder(ListedPids(pgs)) IN
  [i \in 1..Len(ids) |-> Descriptor(ids[i], pgs, urls)]

\* list_resources (no await: one step)
ListResources ==
  /\ AllIdle
  /\ last' = Outcome("list_resources", "", NoArgs, "ok", "", None,
                     Descriptors(pages, pageUrl))
  /\ UNCHANGED <<session, world, deaths, req, cl, counters, mainVars, log, CONFIG>>

\* `if page_id not in pages`
ResourceKnown_always(host, pgs) == TRUE

ResourceKnown(host, pgs) == host \in DOMAIN pgs

\* entry of read_resource: raises, or issues pages[page_id].screenshot()
ReadResource(r, uri) ==
  /\ AllIdle
  /\ LET page_id == uri.host
         a == [url |-> Absent, page_id |-> page_id] IN
     IF ~ResourceKnown(page_id, pages)
     THEN /\ last' = Raised("read_resource", "", a, "PageNotFound")
          /\ UNCHANGED req
     ELSE /\ req' = [req EXCEPT ![r] =
                       [pc |-> "screenshot", name |-> "read_resource", args |-> a,
                        h |-> IF page_id \in DOMAIN pages THEN pages[page_id] ELSE None]]
          /\ UNCHANGED last
  /\ UNCHANGED <<session, world, deaths, cl, counters, mainVars, log, CONFIG>>

\* the PNG bytes of a page: they show the url the page is at
Png(h, urls) == <<"png", urls[h]>>

\* `await pages[page_id].screenshot()` completes
ScreenshotDone(r, ok) ==
  /\ req[r].pc = "screenshot"
  /\ ok => BrowserAlive(req[r].h)
  /\ last' = IF ok
             THEN Outcome("read_resource", "", req[r].args, "ok", "", req[r].h,
                          Png(req[r].h, pageUrl))
             ELSE Raised("read_resource", "", req[r].args, "screenshot_failed")
  /\ req' = [req EXCEPT ![r] = IdleReq]
  /\ UNCHANGED <<session, world, deaths, cl, counters, mainVars, log, CONFIG>>

\* list_resource_templates: `return []`
ListResourceTemplates ==
  /\ AllIdle
  /\ last' = Outcome("list_resource_templates", "", NoArgs, "ok", "", None, <<>>)
  /\ UNCHANGED <<session, world, deaths, req, cl, counters, mainVars, log, CONFIG>>

\* list_tools: the one tool "navigate" with "url" required
Tools == <<[name |-> "navigate", required |-> <<"url">>]>>

ListTools ==
  /\ AllIdle
  /\ last' = Outcome("list_tools", "", NoArgs, "ok", "", None, Tools)
  /\ UNCHANGED <<session, world, deaths, req, cl, counters, mainVars, log, CONFIG>>

\* ------------------------------------------------------------ configure
MaxUserArgs == 2     \* length of the browser_args list given to configure

BrowserTypes == {"chromium", "firefox", "webkit", "msedge", "chrome"}
UserArgs == {"--a", "--no-sandbox"}
UserArgLists == UNION {[1..n -> UserArgs] : n \in 0..MaxUserArgs}

\* ["--no-sandbox", "--disable-setuid-sandbox"] + browser_args
ConfiguredArgs_appended(user) == user \o MandatoryArgs

ConfiguredArgs(user) == MandatoryArgs \o user

\* configure(...); given is FALSE when browser_args is left at None
Configure(browser_type, headless, debug, given, user) ==
  /\ mainPc = "init"
  /\ CONFIG' = [browser_type |-> browser_type, headless |-> headless, debug |-> debug,
                browser_args |-> IF given /\ user # <<>>
                                 THEN ConfiguredArgs(user)
                                 ELSE CONFIG.browser_args]
  /\ last' = Outcome("configure", "", NoArgs, "ok", "", None,
                     IF given THEN user ELSE <<>>)
  /\ UNCHANGED <<session, world, deaths, req, cl, counters, mainVars, log>>

\* -------------------------------------------------------------- cleanup
\* cleanup returns or raises; when main's finally awaited it, main ends
CleanupFinish(by, status, kind) ==
  /\ cl' = IdleCl
  /\ cleanups' = cleanups + 1
  /\ last' = Outcome("cleanup", by, NoArgs, status, kind, None, <<>>)
  /\ mainPc' = IF by = "main" THEN "done" ELSE mainPc

\* entry of cleanup: `if browser: await browser.close()`, else
\* `if playwright_instance: await playwright_instance.stop()`, else return
CleanupEntry(by) ==
  IF browser # None
  THEN /\ cl' = [pc |-> "close", by |-> by]
       /\ closeCalls' = closeCalls + 1
       /\ mainPc' = IF by = "main" THEN "cleanup" ELSE mainPc
       /\ UNCHANGED <<stopCalls, cleanups, last>>
  ELSE IF playwright_instance # None
  THEN /\ cl' = [pc |-> "stop", by |-> by]
       /\ stopCalls' = stopCalls + 1
       /\ mainPc' = IF by = "main" THEN "cleanup" ELSE mainPc
       /\ UNCHANGED <<closeCalls, cleanups, last>>
  ELSE /\ CleanupFinish(by, "ok", "")
       /\ UNCHANGED <<closeCalls, stopCalls>>

\* cleanup() called again by the embedding program after main has ended
Cleanup ==
  /\ AllIdle
  /\ mainPc = "done"
  /\ cleanups < MaxCleanups
  /\ CleanupEntry("direct")
  /\ UNCHANGED <<session, world, deaths, req, calls, exitPath, mainCleanups, log, CONFIG>>

\* `await browser.close()` completes: it returns when the browser is there
\* to be closed (or was closed before), and may raise when the browser died
CloseDone(ok) ==
  /\ cl.pc = "close"
  /\ ~ok => browser \in deadBrowsers
  /\ IF ok
     THEN /\ closed' = closed \cup {browser}
          /\ IF playwright_instance # None
             THEN /\ cl' = [cl EXCEPT !.pc = "stop"]
                  /\ stopCalls' = stopCalls + 1
                  /\ UNCHANGED <<cleanups, last, mainPc>>
             ELSE /\ CleanupFinish(cl.by, "ok", "")
                  /\ UNCHANGED stopCalls
     ELSE /\ CleanupFinish(cl.by, "raised", "close_failed")
          /\ UNCHANGED <<closed, stopCalls>>
  /\ UNCHANGED <<session, started, stopped, launched, pageUrl, deaths, req,
                 calls, closeCalls, exitPath, mainCleanups, log, CONFIG>>

\* `await playwright_instance.stop()` completes
StopDone(ok) ==
  /\ cl.pc = "stop"
  /\ ~ok => playwright_instance \in deadEngines
  /\ IF ok
     THEN /\ stopped' = stopped \cup {playwright_instance}
          /\ CleanupFinish(cl.by, "ok", "")
     ELSE /\ CleanupFinish(cl.by, "raised", "stop_failed")
          /\ UNCHANGED stopped
  /\ UNCHANGED <<session, started, launched, closed, pageUrl, deaths, req,
                 calls, closeCalls, stopCalls, exitPath, mainCleanups, log, CONFIG>>

\* ----------------------------------------------------------------- main
\* try: ... finally: await cleanup()  -- the finally clause runs however
\* the try block is left
FinallyRuns_onlyOnReturn(how) == how = "run_returned"

FinallyRuns(how) == TRUE

LeaveTry(how) ==
  /\ exitPath' = how
  /\ IF FinallyRuns(how)
     THEN /\ mainCleanups' = mainCleanups + 1
          /\ CleanupEntry("main")
     ELSE /\ mainPc' = "done"
          /\ UNCHANGED <<mainCleanups, cl, cleanups, closeCalls, stopCalls, last>>

\* `async with stdio_server() as (...)`: the transport opens, or raises
MainStart(ok) ==
  /\ mainPc = "init"
  /\ AllIdle
  /\ IF ok
     THEN /\ mainPc' = "running"
          /\ UNCHANGED <<exitPath, mainCleanups, cl, cleanups, closeCalls,
                         stopCalls, last>>
     ELSE LeaveTry("transport_raised")
  /\ UNCHANGED <<session, world, deaths, req, calls, log, CONFIG>>

\* `await server.run(...)` returns (peer closed the stream) or raises
RunExit(how) ==
  /\ mainPc = "running"
  /\ AllIdle
  /\ LeaveTry(how)
  /\ UNCHANGED <<session, world, deaths, req, calls, log, CONFIG>>

\* ---------------------------------------------------------- environment
BrowserDies(b) ==
  /\ BrowserAlive(b)
  /\ deadBrowsers' = deadBrowsers \cup {b}
  /\ UNCHANGED <<session, world, deadEngines, req, cl, last, counters, mainVars, log, CONFIG>>

EngineDies(e) ==
  /\ EngineAlive(e)
  /\ deadEngines' = deadEngines \cup {e}
  /\ UNCHANGED <<session, world, deadBrowsers, req, cl, last, counters, mainVars, log, CONFIG>>

\* -------------------------------------------------------- specifications
Handles == 1..MaxCalls

\* the steps of a call_tool coroutine after its entry
ToolSteps ==
  \/ \E r \in Reqs, ok \in BOOLEAN : StartDone(r, ok)
  \/ \E r \in Reqs, ok \in BOOLEAN : LaunchDone(r, ok)
  \/ \E r \in Reqs, ok \in BOOLEAN : NewContextDone(r, ok)
  \/ \E r \in Reqs, ok \in BOOLEAN : NewPageDone(r, ok)
  \/ \E r \in Reqs, ok \in BOOLEAN : GotoDone(r, ok)

\* main and the cleanup it awaits
MainSteps ==
  \/ \E ok \in BOOLEAN : MainStart(ok)
  \/ \E how \in {"run_returned", "run_raised"} : RunExit(how)
  \/ \E ok \in BOOLEAN : CloseDone(ok)
  \/ \E ok \in BOOLEAN : StopDone(ok)

\* requests are handled one at a time
Next ==
  \/ \E n \in Names, a \in ArgBundles : CallTool(FreeSlot, n, a)
  \/ ToolSteps
  \/ MainSteps
  \/ \E p \in PageIdArgs : GetPage(p)
  \/ ListResources
  \/ \E u \in Uris : ReadResource(FreeSlot, u)
  \/ \E r \in Reqs, ok \in BOOLEAN : ScreenshotDone(r, ok)
  \/ ListResourceTemplates
  \/ ListTools
  \/ Cleanup
  \/ \E b \in Handles : BrowserDies(b)
  \/ \E e \in Handles : EngineDies(e)

Spec == Init /\ [][Next]_vars

\* a request may be accepted while another is suspended at an await
NextConcurrent ==
  \/ \E n \in Names, a \in ArgBundles : CallToolConcurrent(FreeSlot, n, a)
  \/ ToolSteps
  \/ MainSteps

SpecConcurrent == Init /\ [][NextConcurrent]_vars

\* the configuration phase: cli.py calls configure before it runs main
NextConfigure ==
  \E t \in BrowserTypes, h \in BOOLEAN, d \in BOOLEAN, g \in BOOLEAN, u \in UserArgLists :
    Configure(t, h, d, g, u)

SpecConfigure == Init /\ [][NextConfigure]_vars

\* ================================================================ claims

\* C1: with requests handled one at a time, at most one engine is started
\* and at most one browser is launched however many call_tool requests are
\* made, a navigate that has succeeded leaves exactly one launched browser,
\* and a call_tool entered when the engine handle is already set starts
\* nothing, launches nothing and leaves the five session variables as
\* they were (it goes straight to its dispatch).
C1_SingleLaunch ==
  /\ [](/\ Cardinality(started) <= 1
        /\ Cardinality(launched) <= 1
        /\ (last.op = "call_tool" /\ last.status = "ok"
              => Cardinality(launched) = 1 /\ Cardinality(started) = 1))
  /\ [][(calls' # calls /\ playwright_instance # None)
          => /\ UNCHANGED <<session, started, launched>>
             /\ \A r \in Reqs : req'[r].pc \in {"idle", "goto"}]_vars

C1_Witness ==
  /\ calls >= 2
  /\ last.op = "call_tool" /\ last.name = "navigate" /\ last.status = "ok"
  /\ Cardinality(launched) = 1

\* C2: when the engine start or the browser launch has failed inside
\* ensure_browser of a request served by the running server and the error
\* has been reported on that request, no engine handle is recorded (the
\* session is still uninitialised, so the next request launches again).
C2_FailedLaunchLeavesUninitialized ==
  (AllIdle /\ mainPc = "running" /\ last.op = "call_tool"
     /\ last.kind \in {"start_failed", "launch_failed"})
    => playwright_instance = None

TornDown == browser \in closed /\ playwright_instance \in stopped

\* C3: once the cleanup run by main has torn the session down (browser
\* closed, engine stopped), every get_page call, with any page_id or with
\* none, raises the not-found error.
C3_GetPageFailsAfterCleanup ==
  (AllIdle /\ mainPc = "done" /\ cleanups = 1 /\ TornDown /\ last.op = "get_page")
    => (last.status = "raised" /\ last.kind = "PageNotFound")

\* C4: a navigate without "url" that is the first request of the process
\* and fails on the missing argument has started no engine and launched
\* no browser: the session is still uninitialised.
C4_MissingUrlLaunchesNothing ==
  (AllIdle /\ mainPc = "running" /\ calls = 1 /\ last.op = "call_tool" /\ last.name = "navigate"
     /\ last.args.url = Absent /\ last.kind = "KeyError")
    => (playwright_instance = None /\ started = {} /\ launched = {})

Initialized == "default" \in DOMAIN pages

\* C5: whenever the server is running and no coroutine is suspended, the engine handle is set iff the
\* session is initialised, and when it is set the browser and context
\* handles are set, the page map holds exactly the page "default" and
\* current_page_id is "default".
C5_SessionInvariant ==
  (AllIdle /\ mainPc = "running") =>
    /\ (playwright_instance # None) <=> Initialized
    /\ (playwright_instance # None) =>
         /\ browser # None
         /\ context # None
         /\ DOMAIN pages = {"default"}
         /\ current_page_id = "default"

\* C6: with two call_tool requests in flight and interleaving at the awaits
\* of ensure_browser, at most one engine is started, at most one browser is
\* launched, and the recorded browser is the one launched from the
\* recorded engine.
C6_SingleLaunchWhenRacing ==
  /\ Cardinality(started) <= 1
  /\ Cardinality(launched) <= 1
  /\ (browser # None => browser = playwright_instance)

Released ==
  /\ \A b \in launched : b \in closed \cup deadBrowsers
  /\ \A e \in started : e \in stopped \cup deadEngines

\* C7: when main has ended (its finally clause has completed and nothing
\* has been called since), every browser that was launched is closed or
\* gone and every engine that was started is stopped or gone.
C7_AllReleasedAtExit ==
  (mainPc = "done" /\ AllIdle /\ cleanups = 1 /\ last.op = "cleanup")
    => Released

\* C8: main runs cleanup exactly once on each way out of its try block:
\* cleanup has been started by main exactly once iff the try block has been
\* left (transport raised, server.run returned, server.run raised), never
\* more than once, and main does not end before that cleanup has completed.
C8_CleanupOncePerExit ==
  /\ mainCleanups <= 1
  /\ (exitPath # "none") <=> (mainCleanups = 1)
  /\ (mainPc \in {"cleanup", "done"}) <=> (exitPath # "none")
  /\ mainPc = "done" => cleanups >= 1

C8_Witness ==
  /\ mainPc = "done"
  /\ exitPath = "run_raised"
  /\ mainCleanups = 1
  /\ calls >= 1

\* C9: cleanup never raises: the run of cleanup awaited by main's finally
\* clause returns normally, whatever browser.close() and stop() did.
C9_CleanupNeverRaises ==
  (last.op = "cleanup" /\ last.name = "main" /\ calls >= 1 /\ exitPath # "transport_raised")
    => last.status = "ok"

\* C10: a run of cleanup after one that has torn the session down is a
\* no-op: its steps issue no browser.close() and no stop(), close and stop nothing,
\* and leave the session variables unchanged.
C10_SecondCleanupNoOp ==
  [][(cleanups >= 1 /\ TornDown /\ (cl.pc # "idle" \/ cl'.pc # "idle" \/ cleanups' # cleanups))
       => /\ closeCalls' = closeCalls
          /\ stopCalls' = stopCalls
          /\ UNCHANGED <<session, closed, stopped>>]_vars

StartupFailures == {"start_failed", "launch_failed", "new_context_failed", "new_page_failed"}

Ready ==
  /\ playwright_instance # None
  /\ browser # None
  /\ context # None
  /\ DOMAIN pages = {"default"}
  /\ current_page_id = "default"

Lifecycle ==
  IF playwright_instance = None THEN "UNINITIALIZED"
  ELSE IF playwright_instance \in stopped \/ browser \in closed THEN "CLOSED"
  ELSE "READY"

C12_ResourcesFollowPageMap ==
  /\ (AllIdle /\ last.op = "list_resources") =>
       /\ Len(last.text) = Cardinality(DOMAIN pages)
       /\ \A i \in 1..Len(last.text) :
            /\ last.text[i].uri.scheme = "screenshot"
            /\ last.text[i].uri.host \in DOMAIN pages
       /\ \A pid \in DOMAIN pages : \E i \in 1..Len(last.text) :
            last.text[i].uri.host = pid
  /\ (AllIdle /\ last.op = "read_resource" /\ last.args.page_id \notin DOMAIN pages) =>
       (last.status = "raised" /\ last.kind = "PageNotFound")
  /\ \A r \in Reqs : req[r].pc = "screenshot" =>
       /\ req[r].args.page_id \in DOMAIN pages
       /\ req[r].h = pages[req[r].args.page_id]

C12_Witness ==
  /\ AllIdle /\ Initialized
  /\ last.op = "read_resource" /\ last.args.page_id = "other"
  /\ last.status = "raised" /\ last.kind = "PageNotFound"

RECURSIVE LastNavigated(_)
LastNavigated(l) ==
  IF l = <<>> THEN Blank
  ELSE IF l[Len(l)] \in Urls THEN l[Len(l)]
  ELSE LastNavigated(SubSeq(l, 1, Len(l) - 1))

\* C13: a navigate that succeeds returns exactly "Navigated to <url>" for
\* its own url and leaves the page at that url; the default page is at the
\* url of the last navigate that succeeded; list_resources then reports
\* exactly one descriptor, "screenshot://default", showing that url, and the
\* screenshot read through it shows that url.
C13_LastNavigateWins ==
  /\ (AllIdle /\ last.op = "call_tool" /\ last.status = "ok") =>
       /\ last.text = <<"Navigated to ", last.args.url>>
       /\ pageUrl[last.value] = last.args.url
  /\ (AllIdle /\ Initialized) => pageUrl[pages["default"]] = LastNavigated(log)
  /\ (AllIdle /\ Initialized /\ last.op = "list_resources") =>
       /\ Len(last.text) = 1
       /\ last.text[1].uri = [scheme |-> "screenshot", host |-> "default"]
       /\ last.text[1].name = <<"Screenshot: ", LastNavigated(log)>>
  /\ (AllIdle /\ last.op = "read_resource" /\ last.status = "ok") =>
       last.text = <<"png", LastNavigated(log)>>

C13_Witness ==
  /\ AllIdle /\ last.op = "list_resources"
  /\ Len(log) = 2 /\ log[1] = "u1" /\ log[2] = "u2"
  /\ Len(last.text) = 1
  /\ last.text[1].name = <<"Screenshot: ", "u2">>

\* C14: a call_tool with a name other than "navigate" whose lazy browser
\* start did not raise fails with the unknown-tool error whose message names
\* the requested tool, whatever the arguments; it never reaches
\* page.goto and changes the location of no page (a page it had to open
\* first is left blank).
C14_UnknownToolRejected ==
  /\ [](/\ (last.op = "call_tool" /\ last.name # "navigate") =>
             /\ last.status = "raised"
             /\ last.kind \notin StartupFailures =>
                  (last.kind = "UnknownTool"
                     /\ last.text = <<"Unknown tool: ", last.name>>)
        /\ \A r \in Reqs : req[r].pc = "goto" => req[r].name = "navigate")
  /\ [][(last' # last /\ last'.op = "call_tool" /\ last'.name # "navigate")
          => /\ \A h \in DOMAIN pageUrl : pageUrl'[h] = pageUrl[h]
             /\ \A h \in DOMAIN pageUrl' \ DOMAIN pageUrl : pageUrl'[h] = Blank]_vars

C14_Witness ==
  /\ Initialized
  /\ last.op = "call_tool" /\ last.name = "click"
  /\ last.kind = "UnknownTool"
  /\ last.args.url = "u1"

\* C15: once ensure_browser has registered the default page, get_page(None)
\* and get_page("default") both succeed and return the same page handle,
\* the one registered under "default".
C15_NoneIsDefault ==
  /\ Initialized =>
       /\ get_page(Absent, pages, current_page_id).ok
       /\ get_page("default", pages, current_page_id).ok
       /\ get_page(Absent, pages, current_page_id).page
            = get_page("default", pages, current_page_id).page
  /\ (AllIdle /\ Initialized /\ last.op = "get_page"
        /\ last.args.page_id \in {Absent, "default"}) =>
       (last.status = "ok" /\ last.value = pages["default"])

C15_Witness ==
  /\ AllIdle /\ Initialized /\ calls = 1
  /\ last.op = "get_page" /\ last.args.page_id = Absent
  /\ last.status = "ok"

\* C16: after any sequence of configure calls CONFIG["browser_args"] begins
\* with "--no-sandbox" then "--disable-setuid-sandbox", and right after a
\* configure with a non-empty list of user arguments the rest of the list
\* is exactly those arguments in their order.
C16_MandatoryArgsFirst ==
  /\ Len(CONFIG.browser_args) >= 2
  /\ CONFIG.browser_args[1] = "--no-sandbox"
  /\ CONFIG.browser_args[2] = "--disable-setuid-sandbox"
  /\ (last.op = "configure" /\ last.text # <<>>) =>
       /\ Len(CONFIG.browser_args) = 2 + Len(last.text)
       /\ \A i \in 1..Len(last.text) : CONFIG.browser_args[2 + i] = last.text[i]

C16_Witness ==
  /\ last.op = "configure"
  /\ last.text = <<"--a", "--no-sandbox">>
  /\ CONFIG.browser_type = "firefox"

\* C17: call_tool runs ensure_browser before it looks at the name or the
\* arguments: a call entered with no engine handle always issues the engine
\* start and completes nothing yet, and a first request whose launch did
\* not raise leaves the session READY whatever it asked for (unknown tool
\* and invalid arguments included).
C17_EnsureBrowserFirst ==
  /\ [][(calls' # calls /\ playwright_instance = None)
          => /\ \E r \in Reqs : req'[r].pc = "start"
             /\ last' = last /\ log' = log]_vars
  /\ []((AllIdle /\ calls = 1 /\ last.op = "call_tool"
           /\ last.kind \notin StartupFailures) => Ready)

C17_Witness ==
  /\ AllIdle /\ calls = 1 /\ Ready
  /\ last.op = "call_tool" /\ last.name = "click" /\ last.kind = "UnknownTool"

\* C18: get_page returns the page registered under page_id whenever a
\* page_id string is given (the empty string included) and the current page
\* only when none is given, and raises the not-found error whenever the id
\* so resolved is not a key of the page map.
C18_GivenIdIsLookedUp ==
  (AllIdle /\ last.op = "get_page") =>
    LET pid == IF last.args.page_id # Absent THEN last.args.page_id
               ELSE current_page_id IN
    IF pid \in DOMAIN pages
    THEN last.status = "ok" /\ last.value = pages[pid]
    ELSE last.status = "raised" /\ last.kind = "PageNotFound"

ResourceOps == {"list_resources", "read_resource", "list_tools", "list_resource_templates"}

\* C19: list_resources, read_resource, list_tools and
\* list_resource_templates start no engine, launch no browser and leave the
\* session variables unchanged; before the first call_tool nothing is
\* started, list_resources returns the empty list and read_resource raises
\* the not-found error for every uri without issuing a screenshot.
C19_OnlyToolsCreateSession ==
  /\ [][((last' # last /\ last'.op \in ResourceOps)
           \/ (\E r \in Reqs : req'[r].name = "read_resource" \/ req[r].name = "read_resource"))
          => UNCHANGED <<session, started, launched, pageUrl>>]_vars
  /\ [](calls = 0 =>
          /\ playwright_instance = None /\ started = {} /\ launched = {}
          /\ pages = EmptyMap
          /\ \A r \in Reqs : req[r].pc = "idle"
          /\ last.op = "list_resources" => last.text = <<>>
          /\ last.op = "read_resource" =>
               (last.status = "raised" /\ last.kind = "PageNotFound"))

C19_Witness ==
  /\ calls = 0 /\ mainPc = "running"
  /\ last.op = "read_resource" /\ last.args.page_id = "default"
  /\ last.status = "raised"

\* C20: a call_tool entered when the session is READY either issues
\* page.goto (it is a navigate with a url whose page id resolves to a
\* registered page) or is rejected at once (unknown tool, page not found,
\* url missing); a rejected call issues no page.goto and leaves the page
\* map, current_page_id, the three handles and every page's location
\* unchanged, and starts and launches nothing.
C20_RejectedCallChangesNothing ==
  [][(calls' # calls /\ Ready)
       => /\ UNCHANGED <<session, started, launched, pageUrl>>
          /\ \/ /\ log' = log /\ last' = last
                /\ \E r \in Reqs :
                     /\ req'[r].pc = "goto" /\ req'[r].name = "navigate"
                     /\ req'[r].args.url \in Urls
                     /\ req'[r].args.page_id \in {Absent, "", "default"}
                     /\ req'[r].h = pages["default"]
             \/ /\ log' = Append(log, "rejected")
                /\ last'.op = "call_tool" /\ last'.status = "raised"
                /\ last'.kind \in {"UnknownTool", "PageNotFound", "KeyError"}
                /\ \/ last'.name # "navigate"
                   \/ last'.args.page_id = "other"
                   \/ last'.args.url = Absent
                /\ \A r \in Reqs : req'[r].pc = "idle"]_vars

C20_Witness ==
  /\ AllIdle /\ Ready
  /\ Len(log) = 3 /\ log[1] \in Urls /\ log[2] = "rejected" /\ log[3] \in Urls
  /\ last.op = "call_tool" /\ last.status = "ok"
  /\ Cardinality(launched) = 1

====
